---- MODULE Spec2Model ----
(***************************************************************************)
(* Call interceptors of decorator.py: CountCalls, _LimitCalls / LimitCalls *)
(* and the closure-based LimitCalls2.  An interceptor wraps an underlying  *)
(* operation, counts invocation attempts, optionally logs each call and    *)
(* optionally rejects calls beyond a threshold.                            *)
(***************************************************************************)
EXTENDS Integers, Sequences, FiniteSets

VARIABLES
    icpts,   \* the interceptor objects created so far (a sequence of records)
    confs,   \* the configurators returned by LimitCalls / LimitCalls2 without a target
    origin,  \* origin[j]: index in confs of the configurator that built icpts[j], 0 if none
    ret,     \* the last decorator-factory call and the value it returned
    stack,   \* frames of the calls in progress (innermost last)
    trace,   \* observable events: enter, before/after records, invoke, return, raise
    pc,      \* concurrent callers: position of each caller inside the call
    reg      \* concurrent callers: the counter value each caller has loaded

vars == <<icpts, confs, origin, ret, stack, trace, pc, reg>>

----------------------------------------------------------------------------
(* Bounds of the model *)

MaxHits == 1        \* thresholds are drawn from 0 .. MaxHits
MaxCalls == 3       \* invocation attempts per run
MaxArg == 1         \* positional arguments are drawn from 0 .. MaxArg
NThreads == 2       \* concurrent callers of one interceptor

----------------------------------------------------------------------------
(* Inputs: underlying operations and call arguments *)

None == "None"

\* square_me: the plain function of the source.
\* down:      a function that calls itself through its decorated name,
\*            down(n) = 0 if n = 0 else 1 + down(n - 1).
\* recip:     a function that raises ZeroDivisionError on argument 0.
\* empty_obj: a named callable object whose truth value is False
\*            (it defines __len__ returning 0); it returns its argument + 1.
SeqTargets == {"square_me", "down", "recip"}
CfgTargets == {"square_me", "empty_obj"}

Args == 0 .. MaxArg
Thresholds == 0 .. MaxHits

\* Keyword arguments of a call, as the set of keyword names passed.
KwArgs == {{}, {"end"}, {"x"}}

\* bool(function): every function and class is true, None is false, and an
\* object is false when its __bool__ / __len__ says so.
Truthy(function) == function # None /\ function # "empty_obj"

\* The operation fails by itself on these arguments.
Fails(f, arg) == f = "recip" /\ arg = 0

\* The operation calls its own decorated name before it returns.
Recurses(f, arg) == f = "down" /\ arg > 0

\* The value the operation returns when it returns without re-entering.
Body(f, arg) ==
    CASE f = "square_me" -> arg * arg
      [] f = "empty_obj" -> arg + 1
      [] f = "recip" -> arg
      [] OTHER -> 0

\* The value the operation returns for an argument (re-entry included).
Result(f, arg) == IF f = "down" THEN arg ELSE Body(f, arg)

\* print(*objects, sep, end, file, flush) accepts these keywords only; any
\* other keyword raises TypeError.
PrintAccepts(kwargs) == kwargs \subseteq {"sep", "end", "file", "flush"}

----------------------------------------------------------------------------
(* Construction *)

CountCalls(func) ==
    [cls |-> "CountCalls", function |-> func, max_hits |-> 0,
     log_calls |-> TRUE, num_calls |-> 0]

_LimitCalls(function, max_hits, log_calls) ==
    [cls |-> "_LimitCalls", function |-> function, max_hits |-> max_hits,
     log_calls |-> log_calls, num_calls |-> 0]

\* LimitCalls2.forward_func_call: builds the closure `wrapper`.
forward_func_call(func, max_hits, log_calls) ==
    [cls |-> "wrapper", function |-> func, max_hits |-> max_hits,
     log_calls |-> log_calls, num_calls |-> 0]

Configurator(cls, max_hits, log_calls) ==
    [cls |-> cls, max_hits |-> max_hits, log_calls |-> log_calls]

LimitCalls(function, max_hits, log_calls) ==
    IF Truthy(function)
    THEN _LimitCalls(function, max_hits, log_calls)
    ELSE Configurator("LimitCalls.wrapper", max_hits, log_calls)

LimitCalls2(_func, max_hits, log_calls) ==
    IF _func = None
    THEN Configurator("forward_func_call", max_hits, log_calls)
    ELSE forward_func_call(_func, max_hits, log_calls)

\* Calling a configurator with the target supplied later.
ApplyConf(conf, function) ==
    IF conf.cls = "LimitCalls.wrapper"
    THEN _LimitCalls(function, conf.max_hits, conf.log_calls)
    ELSE forward_func_call(function, conf.max_hits, conf.log_calls)

IsInterceptor(x) == "num_calls" \in DOMAIN x

----------------------------------------------------------------------------
(* The call: __call__ of CountCalls and _LimitCalls, wrapper of LimitCalls2 *)

\* CountCalls has no threshold; the other two reject beyond max_hits.
Limits(self) == self.cls # "CountCalls"

\* CountCalls prints unconditionally; the others when log_calls is set.
Logs(self) == self.cls = "CountCalls" \/ self.log_calls

Ev(ev, i, call, idx, arg, kw, val, exc) ==
    [ev |-> ev, icpt |-> i, call |-> call, idx |-> idx, arg |-> arg,
     kw |-> kw, val |-> val, exc |-> exc]

Events(ev, i) == {p \in 1 .. Len(trace) : trace[p].ev = ev /\ trace[p].icpt = i}

EventsOf(ev, i, call) == {p \in Events(ev, i) : trace[p].call = call}

\* The ordinal of the next invocation attempt on interceptor i.
Attempt(i) == Cardinality(Events("enter", i)) + 1

\* A counter that stops counting once the limit has been passed.
CountedSaturating(i) ==
    [icpts EXCEPT ![i].num_calls = IF @ > icpts[i].max_hits THEN @ ELSE @ + 1]

\* A counter kept on the configurator: shared by the interceptors it built.
CountedShared(i) ==
    [j \in DOMAIN icpts |->
        IF j = i \/ (origin[i] # 0 /\ origin[j] = origin[i])
        THEN [icpts[j] EXCEPT !.num_calls = @ + 1]
        ELSE icpts[j]]

\* self.num_calls += 1
Counted(i) == [icpts EXCEPT ![i].num_calls = @ + 1]

\* An off-by-one comparison.
ExceededLate(self) == self.num_calls > self.max_hits + 1

\* self.num_calls > self.max_hits
Exceeded(self) == self.num_calls > self.max_hits

\* print("Calling:", name, "#call:", self.num_calls, ..., *args, ..., **kwargs)
BeforeRecords(self, i, call, arg, kw) ==
    IF Logs(self)
    THEN <<Ev("before", i, call, self.num_calls, arg, kw, 0, "")>>
    ELSE <<>>

\* A wrapper that prints nothing after the call.
NoAfterRecords(self, i, call, value) == <<>>

\* print("Return from:", name, "#call:", self.num_calls, "return-value:", value)
AfterRecords(self, i, call, value) ==
    IF Logs(self)
    THEN <<Ev("after", i, call, self.num_calls, 0, {}, value, "")>>
    ELSE <<>>

\* An exception leaves every frame in progress: no frame has a handler.
RECURSIVE Unwind(_, _)
Unwind(stk, exc) ==
    IF stk = <<>> THEN <<>>
    ELSE LET top == stk[Len(stk)]
         IN  <<Ev("raise", top.icpt, top.call, 0, top.arg, top.kw, 0, exc)>>
                 \o Unwind(SubSeq(stk, 1, Len(stk) - 1), exc)

\* A value returned to the caller: the frame below resumes with it.
Deliver(stk, value) ==
    IF stk = <<>> THEN stk
    ELSE [stk EXCEPT ![Len(stk)] = [@ EXCEPT !.st = "resume", !.v = value]]

Raise(i, call, arg, kw, events, exc) ==
    /\ trace' = trace \o events
                   \o <<Ev("raise", i, call, 0, arg, kw, 0, exc)>>
                   \o Unwind(stack, exc)
    /\ stack' = <<>>

\* One invocation of interceptor i, up to the point where the underlying
\* operation returns, fails, or re-enters the interceptor.
Invoke(i, arg, kw) ==
    LET call == Attempt(i)
        counted == Counted(i)
        self == counted[i]
        f == self.function
        enter == <<Ev("enter", i, call, self.num_calls, arg, kw, 0, "")>>
        before == BeforeRecords(self, i, call, arg, kw)
        invoke == <<Ev("invoke", i, call, self.num_calls, arg, kw, 0, "")>>
    IN  /\ icpts' = counted
        /\ IF Limits(self) /\ Exceeded(self)
           THEN Raise(i, call, arg, kw, enter, "ValueError")
           ELSE IF Logs(self) /\ ~PrintAccepts(kw)
           THEN Raise(i, call, arg, kw, enter, "TypeError")
           ELSE IF Fails(f, arg)
           THEN Raise(i, call, arg, kw, enter \o before \o invoke,
                      "ZeroDivisionError")
           ELSE IF Recurses(f, arg)
           THEN /\ trace' = trace \o enter \o before \o invoke
                /\ stack' = Append(stack,
                               [icpt |-> i, call |-> call, arg |-> arg,
                                kw |-> kw, st |-> "body", v |-> 0])
           ELSE LET value == Body(f, arg)
                IN  /\ trace' = trace \o enter \o before \o invoke
                                  \o AfterRecords(self, i, call, value)
                                  \o <<Ev("return", i, call, 0, arg, kw, value, "")>>
                    /\ stack' = Deliver(stack, value)

Attempts == Cardinality({p \in 1 .. Len(trace) : trace[p].ev = "enter"})

\* A call from the program (no call in progress).
Call(i, arg, kw) ==
    /\ stack = <<>>
    /\ i \in DOMAIN icpts
    /\ Attempts + 1 + (IF Recurses(icpts[i].function, arg) THEN arg ELSE 0) <= MaxCalls
    /\ Invoke(i, arg, kw)
    /\ UNCHANGED <<confs, origin, ret, pc, reg>>

\* The operation in progress calls its decorated name: down(n - 1).
Reenter ==
    /\ stack # <<>>
    /\ LET top == stack[Len(stack)]
       IN  /\ top.st = "body"
           /\ Invoke(top.icpt, top.arg - 1, {})
    /\ UNCHANGED <<confs, origin, ret, pc, reg>>

\* The nested call returned v: the operation returns 1 + v, the interceptor
\* prints its "after" record and returns the value.
Return ==
    /\ stack # <<>>
    /\ LET top == stack[Len(stack)]
           value == top.v + 1
           rest == SubSeq(stack, 1, Len(stack) - 1)
       IN  /\ top.st = "resume"
           /\ trace' = trace \o AfterRecords(icpts[top.icpt], top.icpt, top.call, value)
                             \o <<Ev("return", top.icpt, top.call, 0, top.arg,
                                     top.kw, value, "")>>
           /\ stack' = Deliver(rest, value)
    /\ UNCHANGED <<icpts, confs, origin, ret, pc, reg>>

----------------------------------------------------------------------------
(* Decoration *)

Made(op, function, max_hits, log_calls, value) ==
    [op |-> op, function |-> function, max_hits |-> max_hits,
     log_calls |-> log_calls, value |-> value]

\* The value a decorator factory returned is bound by the program: an
\* interceptor joins icpts, a configurator joins confs.
Bind(op, function, max_hits, log_calls, value, maxIcpts, maxConfs) ==
    /\ ret' = Made(op, function, max_hits, log_calls, value)
    /\ IF IsInterceptor(value)
       THEN /\ Len(icpts) < maxIcpts
            /\ icpts' = Append(icpts, value)
            /\ origin' = Append(origin, 0)
            /\ UNCHANGED confs
       ELSE /\ Len(confs) < maxConfs
            /\ confs' = Append(confs, value)
            /\ UNCHANGED <<icpts, origin>>
    /\ UNCHANGED <<stack, trace, pc, reg>>

\* @CountCalls
DecorateCount(func, maxIcpts) ==
    /\ stack = <<>>
    /\ Bind("CountCalls", func, 0, TRUE, CountCalls(func), maxIcpts, 0)

\* @LimitCalls, LimitCalls(f, T, L), LimitCalls(max_hits=T, log_calls=L)
DecorateLimit(function, max_hits, log_calls, maxIcpts, maxConfs) ==
    /\ stack = <<>>
    /\ Bind("LimitCalls", function, max_hits, log_calls,
            LimitCalls(function, max_hits, log_calls), maxIcpts, maxConfs)

\* @LimitCalls2, LimitCalls2(f, max_hits=T, log_calls=L), LimitCalls2(max_hits=T, ...)
DecorateLimit2(_func, max_hits, log_calls, maxIcpts, maxConfs) ==
    /\ stack = <<>>
    /\ Bind("LimitCalls2", _func, max_hits, log_calls,
            LimitCalls2(_func, max_hits, log_calls), maxIcpts, maxConfs)

\* A configurator applied to a target.
ApplyConfigurator(c, function, maxIcpts) ==
    /\ stack = <<>>
    /\ c \in DOMAIN confs
    /\ Len(icpts) < maxIcpts
    /\ icpts' = Append(icpts, ApplyConf(confs[c], function))
    /\ origin' = Append(origin, c)
    /\ ret' = Made("apply", function, confs[c].max_hits, confs[c].log_calls,
                   ApplyConf(confs[c], function))
    /\ UNCHANGED <<confs, stack, trace, pc, reg>>

----------------------------------------------------------------------------
(* Sequential use of one interceptor *)

Init ==
    /\ icpts = <<>>
    /\ confs = <<>>
    /\ origin = <<>>
    /\ ret = Made("none", None, 0, FALSE, [cls |-> None])
    /\ stack = <<>>
    /\ trace = <<>>
    /\ pc = <<>>
    /\ reg = <<>>

Next ==
    \/ \E f \in SeqTargets : DecorateCount(f, 1)
    \/ \E f \in SeqTargets, T \in Thresholds, L \in BOOLEAN :
           DecorateLimit(f, T, L, 1, 0)
    \/ \E f \in SeqTargets, T \in Thresholds, L \in BOOLEAN :
           DecorateLimit2(f, T, L, 1, 0)
    \/ \E i \in DOMAIN icpts, arg \in Args, kw \in KwArgs : Call(i, arg, kw)
    \/ Reenter
    \/ Return

Spec == Init /\ [][Next]_vars

----------------------------------------------------------------------------
(* Configurators: immediate and deferred decoration of up to two operations *)

CfgArgs == {1}

NextCfg ==
    \/ \E f \in CfgTargets \cup {None}, T \in Thresholds, L \in BOOLEAN :
           DecorateLimit(f, T, L, 2, 1)
    \/ \E f \in CfgTargets \cup {None}, T \in Thresholds, L \in BOOLEAN :
           DecorateLimit2(f, T, L, 2, 1)
    \/ \E c \in DOMAIN confs, f \in CfgTargets : ApplyConfigurator(c, f, 2)
    \/ \E i \in DOMAIN icpts, arg \in CfgArgs : Call(i, arg, {})

SpecCfg == Init /\ [][NextCfg]_vars

----------------------------------------------------------------------------
(* Concurrent callers of one limiting interceptor.  The interceptor takes  *)
(* no lock: self.num_calls += 1 is a load and a store, and the comparison  *)
(* reads the attribute again.                                              *)

Threads == 1 .. NThreads

InitConc ==
    /\ \E T \in Thresholds :
           icpts \in {<<_LimitCalls("square_me", T, FALSE)>>,
                      <<forward_func_call("square_me", T, FALSE)>>}
    /\ confs = <<>>
    /\ origin = <<0>>
    /\ ret = Made("none", None, 0, FALSE, [cls |-> None])
    /\ stack = <<>>
    /\ trace = <<>>
    /\ pc = [t \in Threads |-> "call"]
    /\ reg = [t \in Threads |-> 0]

\* LOAD_ATTR num_calls
Load(t) ==
    /\ pc[t] = "call"
    /\ reg' = [reg EXCEPT ![t] = icpts[1].num_calls]
    /\ pc' = [pc EXCEPT ![t] = "store"]
    /\ trace' = Append(trace, Ev("enter", 1, t, 0, t, {}, 0, ""))
    /\ UNCHANGED <<icpts, confs, origin, ret, stack>>

\* BINARY_OP +=, STORE_ATTR num_calls
Store(t) ==
    /\ pc[t] = "store"
    /\ icpts' = [icpts EXCEPT ![1].num_calls = reg[t] + 1]
    /\ pc' = [pc EXCEPT ![t] = "check"]
    /\ UNCHANGED <<confs, origin, ret, stack, trace, reg>>

\* if self.num_calls > self.max_hits: raise ...; otherwise forward and return
Check(t) ==
    /\ pc[t] = "check"
    /\ pc' = [pc EXCEPT ![t] = "done"]
    /\ LET self == icpts[1]
       IN  IF Exceeded(self)
           THEN trace' = Append(trace, Ev("raise", 1, t, 0, t, {}, 0, "ValueError"))
           ELSE trace' = trace \o <<Ev("invoke", 1, t, self.num_calls, t, {}, 0, ""),
                                    Ev("return", 1, t, 0, t, {},
                                       Body(self.function, t), "")>>
    /\ UNCHANGED <<icpts, confs, origin, ret, stack, reg>>

NextConc ==
    \/ \E t \in Threads : Load(t)
    \/ \E t \in Threads : Store(t)
    \/ \E t \in Threads : Check(t)

SpecConc == InitConc /\ [][NextConc]_vars

----------------------------------------------------------------------------
(* Properties *)

Icpts == DOMAIN icpts

\* The call `call` of interceptor i was rejected by the limit: it raised
\* ValueError without reaching the underlying operation.
Rejected(i, call) ==
    /\ EventsOf("invoke", i, call) = {}
    /\ \E q \in EventsOf("raise", i, call) : trace[q].exc = "ValueError"

Completed(i, call) ==
    EventsOf("return", i, call) # {} \/ EventsOf("raise", i, call) # {}

\* C1: for a limiting interceptor with threshold T over an operation that
\* does not fail, each of the first T calls returns the operation's result
\* for the call's arguments, and call T+1 fails with ValueError.
C1_FirstTSucceedThenLimit ==
    \A i \in Icpts :
        (Limits(icpts[i]) /\ icpts[i].function = "square_me") =>
            \A p \in Events("enter", i) :
                LET c == trace[p].call
                IN  /\ c <= icpts[i].max_hits =>
                           \E q \in EventsOf("return", i, c) :
                               trace[q].val = Result(icpts[i].function, trace[p].arg)
                    /\ c = icpts[i].max_hits + 1 => Rejected(i, c)

\* C2: the counter starts at 0, grows by exactly 1 on every invocation
\* attempt, accepted or rejected, and is never decreased or reset: it always
\* equals the number of attempts made, and the value an attempt sees after
\* its increment is the attempt's ordinal (T+1 for the first rejected call,
\* T+1+k after k further rejected calls).
C2_CounterCountsAttempts ==
    \A i \in Icpts :
        /\ icpts[i].num_calls = Cardinality(Events("enter", i))
        /\ \A p \in Events("enter", i) : trace[p].idx = trace[p].call

C2_Witness ==
    \E i \in Icpts :
        /\ Limits(icpts[i])
        /\ icpts[i].num_calls = icpts[i].max_hits + 2
        /\ Rejected(i, icpts[i].max_hits + 1)
        /\ Rejected(i, icpts[i].max_hits + 2)

\* C3: after N calls to a CountCalls wrapper num_calls = N, and every call
\* returns the value the underlying operation returns for its arguments.
C3_CountAndResult ==
    \A i \in Icpts :
        icpts[i].cls = "CountCalls" =>
            /\ icpts[i].num_calls = Cardinality(Events("enter", i))
            /\ \A p \in Events("enter", i) :
                   (Completed(i, trace[p].call)
                        /\ ~Fails(icpts[i].function, trace[p].arg)) =>
                       \E q \in EventsOf("return", i, trace[p].call) :
                           trace[q].val = Result(icpts[i].function, trace[p].arg)

\* C4: a rejected call never reaches the underlying operation: the operation
\* is invoked only by calls whose post-increment counter is <= T, at most T
\* times in all, and every call after the first rejection is rejected too.
C4_RejectedNeverForwards ==
    \A i \in Icpts :
        Limits(icpts[i]) =>
            /\ \A p \in Events("invoke", i) : trace[p].idx <= icpts[i].max_hits
            /\ Cardinality(Events("invoke", i)) <= icpts[i].max_hits
            /\ \A p \in Events("enter", i) :
                   trace[p].idx > icpts[i].max_hits => Rejected(i, trace[p].call)
            /\ \A p, q \in Events("enter", i) :
                   (p < q /\ Rejected(i, trace[p].call)) => Rejected(i, trace[q].call)

C4_Witness ==
    \E i \in Icpts :
        /\ Limits(icpts[i])
        /\ icpts[i].max_hits >= 1
        /\ Cardinality(Events("invoke", i)) = icpts[i].max_hits
        /\ Rejected(i, icpts[i].max_hits + 1)
        /\ Rejected(i, icpts[i].max_hits + 2)

\* C5: an interceptor has no error of its own but the limit rejection: every
\* call not rejected by the limit invokes the underlying operation exactly
\* once with the call's arguments, and fails only if that operation fails.
C5_NoOwnErrors ==
    \A i \in Icpts :
        /\ \A p \in Events("raise", i) :
               EventsOf("invoke", i, trace[p].call) = {} =>
                   /\ Limits(icpts[i])
                   /\ trace[p].exc = "ValueError"
                   /\ trace[p].call > icpts[i].max_hits
        /\ \A p \in Events("enter", i) :
               (Completed(i, trace[p].call) /\ ~Rejected(i, trace[p].call)) =>
                   /\ Cardinality(EventsOf("invoke", i, trace[p].call)) = 1
                   /\ \A q \in EventsOf("invoke", i, trace[p].call) :
                          trace[q].arg = trace[p].arg /\ trace[q].kw = trace[p].kw

\* C6: with logging enabled on a limiting interceptor, a successful call
\* emits exactly one "before" record, before the operation runs, and exactly
\* one "after" record, after it returned; a rejected call emits no "after"
\* record.
C6_OneBeforeOneAfter ==
    \A i \in Icpts :
        (Limits(icpts[i]) /\ icpts[i].log_calls) =>
            /\ \A p \in Events("return", i) :
                   LET c == trace[p].call
                   IN  /\ Cardinality(EventsOf("before", i, c)) = 1
                       /\ Cardinality(EventsOf("after", i, c)) = 1
                       /\ \A b \in EventsOf("before", i, c),
                             v \in EventsOf("invoke", i, c),
                             a \in EventsOf("after", i, c) :
                              b < v /\ v < a /\ a < p
            /\ \A p \in Events("enter", i) :
                   Rejected(i, trace[p].call) =>
                       EventsOf("after", i, trace[p].call) = {}

C6_Witness ==
    \E i \in Icpts :
        /\ Limits(icpts[i])
        /\ icpts[i].log_calls
        /\ Events("return", i) # {}
        /\ \E p \in Events("enter", i) : Rejected(i, trace[p].call)

\* C7: two interceptors built by one configurator have independent
\* counters: a call on one, accepted or rejected, leaves the other unchanged.
C7_IndependentCounters ==
    [][\A i, j \in Icpts :
           (/\ i # j
            /\ origin[i] # 0
            /\ origin[j] = origin[i]
            /\ Len(trace') > Len(trace)
            /\ trace'[Len(trace) + 1].icpt = i) => icpts'[j] = icpts[j]]_vars

C7_Witness ==
    /\ Len(icpts) = 2
    /\ origin[1] # 0
    /\ origin[2] = origin[1]
    /\ icpts[1].function # icpts[2].function
    /\ icpts[1].max_hits >= 1
    /\ Rejected(1, icpts[1].max_hits + 1)
    /\ icpts[2].num_calls = 0

\* C8: LimitCalls(f, T, L) and LimitCalls2(f, max_hits=T, log_calls=L) with a
\* callable f return an interceptor, never a configurator, and that
\* interceptor equals the one the configurator for (T, L) builds from f.
C8_ImmediateEqualsDeferred ==
    (ret.op \in {"LimitCalls", "LimitCalls2"} /\ ret.function # None) =>
        /\ IsInterceptor(ret.value)
        /\ ret.value =
               ApplyConf(IF ret.op = "LimitCalls"
                         THEN LimitCalls(None, ret.max_hits, ret.log_calls)
                         ELSE LimitCalls2(None, ret.max_hits, ret.log_calls),
                         ret.function)

\* C9: with concurrent callers the increment-and-compare acts as one atomic
\* step: when all calls are over the counter equals the number of attempts,
\* and with at least T attempts exactly T calls were forwarded.
C9_AtomicIncrementAndCompare ==
    (pc # <<>> /\ \A t \in Threads : pc[t] = "done") =>
        /\ icpts[1].num_calls = NThreads
        /\ NThreads >= icpts[1].max_hits =>
               Cardinality(Events("invoke", 1)) = icpts[1].max_hits

\* C10: the call index of a call's "after" record equals the call index of
\* that call's "before" record, also when the operation re-entered the
\* interceptor before it returned.
C10_AfterIndexIsBeforeIndex ==
    \A p \in 1 .. Len(trace) :
        trace[p].ev = "after" =>
            \E q \in EventsOf("before", trace[p].icpt, trace[p].call) :
                q < p /\ trace[q].idx = trace[p].idx

====
